---- MODULE Spec2Model ----
(***************************************************************************)
(* Model of asf_mission_data_tool: the getters module                      *)
(* (getters/data_getters.py) and the three pipeline drivers that call it.  *)
(*                                                                         *)
(* Text is modelled by TLA+ strings; TLC evaluates Len, \o and SubSeq on   *)
(* them, so `in`, split, rsplit, strip, lower and strptime are computed    *)
(* character by character as Python computes them.                         *)
(***************************************************************************)
EXTENDS Integers, Sequences, FiniteSets, TLC

VARIABLES
    registry,        \* asf_mission_data_tool/config/base.yaml as persisted on disk
    config,          \* the in-memory config the package loaded when the process started
    store,           \* the bucket "asf-mission-data-tool": key -> body of each existing object
    clock,           \* the wall clock read by datetime.now(), in seconds
    pc,              \* position of the running driver script
    dataset_name,    \* the driver's dataset_name
    filter,          \* the filter argument of the driver (the season for PAT, None otherwise)
    seasons,         \* PAT driver: the seasons still to iterate after the current one
    latest_version,  \* the release get_latest_version returned
    urlIdx,          \* index in latest_version["file_url"] of the URL handled by the loop
    s3_file_path,    \* the driver's list of returned locations
    call,            \* local variables of the current save_to_s3_bronze call (wrapper and inner)
    error,           \* the exception that ended the run, or None
    calls,           \* number of save_to_s3_bronze calls made so far
    updaters,        \* the append_file_bronze_to_latest_version calls other processes
                     \* are making on the same base.yaml: their arguments and locals
    hist             \* history of the run: calls made, registry writes, store before the call

vars == <<updaters, registry, config, store, clock, pc, dataset_name, filter, seasons,
          latest_version, urlIdx, s3_file_path, call, error, calls, hist>>

-----------------------------------------------------------------------------
(* Bounds *)

MaxVersions == 3     \* longest versions list drawn for the resolver
MaxCalls == 2        \* save_to_s3_bronze calls in one behaviour
MaxClock == 1        \* last clock tick
MaxReleases == 2     \* longest versions list drawn for the registry updater

-----------------------------------------------------------------------------
(* Python values *)

None == "<None>"

\* Python truth value of an Optional[str]
Truthy(x) == x # None /\ x # ""

Max(S) == CHOOSE m \in S : \A x \in S : x <= m

Char(s, i) == SubSeq(s, i, i)

\* `f in u` for two strings
IsSubstring(f, u) ==
    \E i \in 0..(Len(u) - Len(f)) : SubSeq(u, i + 1, i + Len(f)) = f

\* start of the last occurrence of sep in s, 0 when there is none
LastIndexOf(s, sep) ==
    LET hits == {i \in 1..(Len(s) - Len(sep) + 1) : SubSeq(s, i, i + Len(sep) - 1) = sep}
    IN  IF hits = {} THEN 0 ELSE Max(hits)

FirstIndexOf(s, sep) ==
    LET hits == {i \in 1..(Len(s) - Len(sep) + 1) : SubSeq(s, i, i + Len(sep) - 1) = sep}
    IN  IF hits = {} THEN 0 ELSE CHOOSE i \in hits : \A j \in hits : i <= j

\* s.split(sep)[-1]
SplitLast(s, sep) ==
    LET i == LastIndexOf(s, sep)
    IN  IF i = 0 THEN s ELSE SubSeq(s, i + Len(sep), Len(s))

\* s.rsplit(sep, 1)[0]
RSplitFirst(s, sep) ==
    LET i == LastIndexOf(s, sep)
    IN  IF i = 0 THEN s ELSE SubSeq(s, 1, i - 1)

\* s.strip(ch) for a one-character ch
RECURSIVE Strip(_, _)
Strip(s, ch) ==
    IF s = "" THEN s
    ELSE IF Char(s, 1) = ch THEN Strip(SubSeq(s, 2, Len(s)), ch)
    ELSE IF Char(s, Len(s)) = ch THEN Strip(SubSeq(s, 1, Len(s) - 1), ch)
    ELSE s

LowerChar(c) ==
    CASE c = "Y" -> "y"
      [] c = "N" -> "n"
      [] c = "E" -> "e"
      [] c = "S" -> "s"
      [] OTHER -> c

\* s.lower()
RECURSIVE Lower(_)
Lower(s) == IF s = "" THEN "" ELSE LowerChar(Char(s, 1)) \o Lower(SubSeq(s, 2, Len(s)))

DigitVal(c) ==
    CASE c = "0" -> 0 [] c = "1" -> 1 [] c = "2" -> 2 [] c = "3" -> 3 [] c = "4" -> 4
      [] c = "5" -> 5 [] c = "6" -> 6 [] c = "7" -> 7 [] c = "8" -> 8 [] c = "9" -> 9

RECURSIVE ParseInt(_)
ParseInt(s) ==
    IF s = "" THEN 0
    ELSE 10 * ParseInt(SubSeq(s, 1, Len(s) - 1)) + DigitVal(Char(s, Len(s)))

\* datetime.strptime(s, "%Y-%m-%d"): the year, month and day fields of s
Strptime(s) ==
    LET i == FirstIndexOf(s, "-")
        j == LastIndexOf(s, "-")
    IN  <<ParseInt(SubSeq(s, 1, i - 1)),
          ParseInt(SubSeq(s, i + 1, j - 1)),
          ParseInt(SubSeq(s, j + 1, Len(s)))>>

\* a < b for two datetimes
DateLess(a, b) ==
    \/ a[1] < b[1]
    \/ a[1] = b[1] /\ a[2] < b[2]
    \/ a[1] = b[1] /\ a[2] = b[2] /\ a[3] < b[3]

-----------------------------------------------------------------------------
(* get_latest_version *)

Raise(type, where) == [raised |-> TRUE, type |-> type, where |-> where]
Return(v) == [raised |-> FALSE, value |-> v]

\* the key with the format string "%Y-%d-%m": month and day swapped
ReleaseKeySwapped(version) ==
    LET t == Strptime(version["release_date"]) IN <<t[1], t[3], t[2]>>

\* the sort key of max(): key=lambda x: datetime.strptime(x["release_date"], "%Y-%m-%d")
ReleaseKey(version) == Strptime(version["release_date"])

\* a max() that returns the last of the elements with the greatest key
PyMaxLast(versions) ==
    LET i == CHOOSE i \in 1..Len(versions) :
                 /\ \A j \in 1..Len(versions) :
                        ~DateLess(ReleaseKey(versions[i]), ReleaseKey(versions[j]))
                 /\ \A j \in (i + 1)..Len(versions) :
                        DateLess(ReleaseKey(versions[j]), ReleaseKey(versions[i]))
    IN  versions[i]

\* max(versions, key=...): the first element no other element's key exceeds
PyMax(versions) ==
    LET i == CHOOSE i \in 1..Len(versions) :
                 /\ \A j \in 1..Len(versions) :
                        ~DateLess(ReleaseKey(versions[i]), ReleaseKey(versions[j]))
                 /\ \A j \in 1..(i - 1) :
                        DateLess(ReleaseKey(versions[j]), ReleaseKey(versions[i]))
    IN  versions[i]

\* any(filter in url for url in version["file_url"])
MatchesFilter(version, f) ==
    \E k \in 1..Len(version["file_url"]) : IsSubstring(f, version["file_url"][k])

\* [version for version in versions if any(...)]
FilteredVersions(versions, f) == SelectSeq(versions, LAMBDA v : MatchesFilter(v, f))

\* the selection that falls back to every version when the filter matches none
LatestOfFallback(versions, f) ==
    LET filtered == FilteredVersions(versions, f)
        candidates == IF Truthy(f) /\ Len(filtered) > 0 THEN filtered ELSE versions
    IN  IF Len(candidates) = 0
        THEN Raise("ValueError", "max")
        ELSE Return(PyMax(candidates))

\* the selection both get_latest_version and append_file_bronze_to_latest_version make
LatestOf(versions, f) ==
    LET candidates == IF Truthy(f) THEN FilteredVersions(versions, f) ELSE versions
    IN  IF Len(candidates) = 0
        THEN Raise("ValueError", "max")
        ELSE Return(PyMax(candidates))

get_latest_version(cfg, name, f) ==
    IF name \notin DOMAIN cfg["dataset"]
    THEN Raise("AttributeError", "get_latest_version")
    ELSE LatestOf(cfg["dataset"][name]["versions"], f)

-----------------------------------------------------------------------------
(* The registry, the object store and the environment *)

HP == "heat_pump_deployment_quarterly_statistics"
UK == "uk_territorial_greenhouse_gas_emissions_statistics"
PAT == "public_attitudes_tracking_survey"

Drivers == {HP, UK, PAT}

\* for season in ["Summer", "Spring", "Winter"]
Seasons == <<"Summer", "Spring", "Winter">>

Release(date, urls) == [release_date |-> date, file_url |-> urls]

\* a base.yaml with no file_bronze entries
InitialRegistry ==
    [dataset |->
        (HP :> [versions |->
                  <<Release("2024-03-28", <<"http://g/hp.xlsx", "http://g/hp.ods">>),
                    Release("2023-12-21", <<"http://g/old.xlsx">>)>>]
      @@ UK :> [versions |->
                  <<Release("2023-02-02", <<"http://g/final.csv">>),
                    Release("2024-3-28", <<"http://g/prov.csv">>)>>]
      @@ PAT :> [versions |->
                  <<Release("2023-09-01", <<"http://g/Summer.csv", "http://g/Summer.ods">>),
                    Release("2023-06-01", <<"http://g/Spring.csv">>),
                    Release("2023-03-01", <<"http://g/Winter.csv">>)>>])]

Bucket == "asf-mission-data-tool"

\* what requests.get can answer
StatusCodes == {200, 404}
Contents == {"ab", "cd"}
NoHeaders == [h \in {} |-> ""]
HeaderSets == {NoHeaders, "Content-Disposition" :> "attachment; filename=\"d.csv\""}
\* a remote server that names no file in its response
PlainHeaders == {NoHeaders}

\* what the operator can type at an input() prompt
Answers == {"y", "Y", "n", ""}

\* how an object-store call can fail
HeadFailures == {"ClientError:403", "NoCredentialsError"}
PutFailures == {"NoCredentialsError", "ClientError:500"}

\* the classes derived from Exception among the errors raised here
Exceptions == HeadFailures \cup PutFailures \cup {"CalledProcessError", "ValueError",
                                                  "AttributeError"}

\* what `git config --global user.name` can print; None: the command fails
GitOutputs == {"alice\n", None}

NoError == [raised |-> FALSE]

\* no other process is updating base.yaml
NoUpdaters == <<>>
NoVersion == Release(None, <<>>)

\* the package's import-time load of base.yaml into `config`
LoadConfig(reg) == reg

HasKey(key) == key \in DOMAIN store

\* a put that leaves an existing object as it is
PutObjectIfAbsent(key, body) ==
    [k \in DOMAIN store \cup {key} |-> IF k \in DOMAIN store THEN store[k] ELSE body]

\* s3_client.put_object(Bucket=..., Key=key, Body=body)
PutObject(key, body) ==
    [k \in DOMAIN store \cup {key} |-> IF k = key THEN body ELSE store[k]]

-----------------------------------------------------------------------------
(* save_to_s3_bronze and its decorator *)

NewCall(url) ==
    [target_url |-> url,
     status_code |-> 0, file_content |-> "", headers |-> NoHeaders,
     file_name |-> None, main_file_path |-> None,
     file_exists |-> FALSE, existing_file_size |-> 0, overwrite |-> None,
     result |-> None,
     toml_content |-> None, toml_file_path |-> None,
     toml_exists |-> FALSE, toml_overwrite |-> None,
     retval |-> None,
     \* history of the call
     wrote_main |-> FALSE, wrote_toml |-> FALSE,
     main_put_failed |-> FALSE, toml_put_failed |-> FALSE]

NoCall == NewCall(None)

\* lines 152-157: file name from the response headers or the URL
FileName(headers, target_url) ==
    IF "Content-Disposition" \in DOMAIN headers
    THEN Strip(SplitLast(headers["Content-Disposition"], "filename="), "\"")
    ELSE SplitLast(target_url, "/")

\* line 160
MainFilePath(name, file_name) == "bronze/" \o name \o "/" \o file_name

\* lines 66-68
TomlFilePath(name, target_url) ==
    "bronze/" \o name \o "/" \o RSplitFirst(SplitLast(target_url, "/"), ".") \o ".toml"

\* line 211
Location(main_file_path) == "s3://" \o Bucket \o "/" \o main_file_path

\* the handlers with the `except Exception` clause left out
CaughtCredentialsOnly(f) == f = "NoCredentialsError"

\* the handlers around put_object, lines 101-104 and 206-209:
\* except NoCredentialsError, then except Exception
Caught(f) == f = "NoCredentialsError" \/ f \in Exceptions

\* the test of lines 89, 186 and 194: overwrite.lower() != "y"
Declined(overwrite) == Lower(overwrite) # "y"

DigitStr(n) ==
    CASE n = 0 -> "0" [] n = 1 -> "1" [] n = 2 -> "2" [] n = 3 -> "3" [] n = 4 -> "4"
      [] n = 5 -> "5" [] n = 6 -> "6" [] n = 7 -> "7" [] n = 8 -> "8" [] n = 9 -> "9"

\* datetime.strftime("%Y-%m-%d %H:%M:%S") of the clock, counted from 2024-11-06 08:00:00
Strftime(t) == "2024-11-06 08:00:" \o DigitStr(t \div 10) \o DigitStr(t % 10)

\* toml.dumps(metadata)
TomlDumps(metadata) ==
    "original_file_url = \"" \o metadata["original_file_url"] \o "\"\n"
    \o "download_date_time = \"" \o metadata["download_date_time"] \o "\"\n"
    \o "downloaded_by_git_user = \"" \o metadata["downloaded_by_git_user"] \o "\"\n"

EmptyStore == [k \in {} |-> ""]

\* the bucket before the behaviour starts: it holds what an earlier publish of the latest
\* UK file left when its .toml write failed, the data object alone
InitialStore == MainFilePath(UK, "prov.csv") :> "xyz"

-----------------------------------------------------------------------------
(* History kept for the properties; no action reads it *)

NoPrev == [valid |-> FALSE]

\* the operator was asked to overwrite the data object and said no to every prompt of the call
DeclinedEveryPrompt(c) ==
    /\ c.overwrite # None /\ Declined(c.overwrite)
    /\ c.toml_overwrite # None => Declined(c.toml_overwrite)

NewHist(reg, st, prev) ==
    [saved |-> <<>>,            \* URLs passed to save_to_s3_bronze for the resolved release
     got_location |-> FALSE,    \* some save_to_s3_bronze call of the run returned a location
     failed_call |-> FALSE,     \* some call of the run that returned met a bad status or a
                                \* put_object error
     appends |-> <<>>,          \* the append_file_bronze_to_latest_version calls of the run
     registry0 |-> reg,         \* the persisted registry when the run started
     store0 |-> st,             \* the store when the current call started
     prev |-> prev]             \* the call before the current one

\* what is remembered of a finished call in which the operator declined
Summary(name, c, st0, st) ==
    IF DeclinedEveryPrompt(c)
    THEN [valid |-> TRUE, dataset_name |-> name, target_url |-> c.target_url,
          file_content |-> c.file_content, unchanged |-> (st = st0)]
    ELSE NoPrev

-----------------------------------------------------------------------------
(* The drivers: lines 7-12 *)

Crash(e) ==
    /\ pc' = "crashed"
    /\ error' = e

\* a driver script starts: the imports load the config, dataset_name is set
StartRun(d) ==
    /\ pc \in {"start", "exit", "crashed"}
    /\ calls < MaxCalls
    /\ dataset_name' = d
    /\ config' = LoadConfig(registry)
    /\ error' = NoError
    /\ latest_version' = NoVersion
    /\ urlIdx' = 1
    /\ s3_file_path' = <<>>
    /\ call' = NoCall
    /\ hist' = NewHist(registry, store, hist.prev)
    /\ IF d = PAT
       THEN /\ pc' = "for_season"
            /\ seasons' = Seasons
            /\ filter' = None
       ELSE /\ pc' = "resolve"
            /\ seasons' = <<>>
            /\ filter' = None
    /\ UNCHANGED <<registry, store, clock, calls, updaters>>

\* PAT line 11: for season in [...]
ForSeason ==
    /\ pc = "for_season"
    /\ IF seasons = <<>>
       THEN /\ pc' = "exit"
            /\ UNCHANGED <<filter, seasons>>
       ELSE /\ pc' = "resolve"
            /\ filter' = Head(seasons)
            /\ seasons' = Tail(seasons)
    /\ UNCHANGED <<registry, config, updaters, store, clock, dataset_name, latest_version,
                   urlIdx, s3_file_path, call, error, calls, hist>>

\* latest_version = get_latest_version(dataset_name[, filter=season]); s3_file_path = []
Resolve ==
    /\ pc = "resolve"
    /\ LET r == get_latest_version(config, dataset_name, filter)
       IN  IF r.raised
           THEN /\ Crash(r)
                /\ UNCHANGED <<latest_version, urlIdx, s3_file_path, hist>>
           ELSE /\ pc' = "for_url"
                /\ error' = error
                /\ latest_version' = r.value
                /\ urlIdx' = 1
                /\ s3_file_path' = <<>>
                /\ hist' = [hist EXCEPT !.saved = <<>>]
    /\ UNCHANGED <<registry, config, updaters, store, clock, dataset_name, filter, seasons, call, calls>>

\* for file_url in latest_version.get("file_url"): save_to_s3_bronze(...) is entered
CallSave ==
    /\ pc = "for_url"
    /\ urlIdx <= Len(latest_version["file_url"])
    /\ calls < MaxCalls
    /\ calls' = calls + 1
    /\ call' = NewCall(latest_version["file_url"][urlIdx])
    /\ hist' = [hist EXCEPT !.saved = Append(@, latest_version["file_url"][urlIdx]),
                            !.store0 = store]
    /\ pc' = "get"
    /\ UNCHANGED <<registry, config, updaters, store, clock, dataset_name, filter, seasons,
                   latest_version, urlIdx, s3_file_path, error>>

\* the for loop over the URLs is exhausted
LoopExit ==
    /\ pc = "for_url"
    /\ urlIdx > Len(latest_version["file_url"])
    /\ pc' = IF dataset_name = PAT THEN "for_season" ELSE "if_paths"
    /\ UNCHANGED <<registry, config, updaters, store, clock, dataset_name, filter, seasons,
                   latest_version, urlIdx, s3_file_path, call, error, calls, hist>>

-----------------------------------------------------------------------------
(* save_to_s3_bronze: the inner function, lines 141-211 *)

callVars == <<registry, config, updaters, clock, dataset_name, filter, seasons,
              latest_version, urlIdx, s3_file_path, calls, hist>>

\* lines 142-160: requests.get, then the file name and the key;
\* headerSets: the response headers the remote server may send
Download(headerSets) ==
    /\ pc = "get"
    /\ \E status \in StatusCodes, content \in Contents, headers \in headerSets :
          IF status = 200
          THEN LET file_name == FileName(headers, call.target_url)
               IN  /\ call' = [call EXCEPT !.status_code = status,
                                           !.file_content = content,
                                           !.headers = headers,
                                           !.file_name = file_name,
                                           !.main_file_path = MainFilePath(dataset_name, file_name)]
                   /\ pc' = "head_main"
          ELSE \* print, return: the wrapper goes on with result = None
               /\ call' = [call EXCEPT !.status_code = status, !.result = None]
               /\ pc' = "metadata"
    /\ UNCHANGED <<store, error>>
    /\ UNCHANGED callVars

\* lines 162-176: head_object on the data key
HeadMain ==
    /\ pc = "head_main"
    /\ \/ /\ HasKey(call.main_file_path)
          /\ call' = [call EXCEPT !.file_exists = TRUE,
                                  !.existing_file_size = Len(store[call.main_file_path])]
          /\ pc' = "prompt_main"
          /\ UNCHANGED error
       \/ /\ ~HasKey(call.main_file_path)     \* ClientError 404
          /\ call' = [call EXCEPT !.file_exists = FALSE]
          /\ pc' = "put_main"
          /\ UNCHANGED error
       \/ /\ \E f \in HeadFailures : Crash(Raise(f, "head_main"))
          /\ UNCHANGED call
    /\ UNCHANGED store
    /\ UNCHANGED callVars

\* lines 179-196: the overwrite prompt, with either message
PromptMain ==
    /\ pc = "prompt_main"
    /\ \E answer \in Answers :
          /\ call' = [call EXCEPT !.overwrite = answer,
                                  !.result = None]
          /\ pc' = IF Declined(answer) THEN "metadata" ELSE "put_main"
    /\ UNCHANGED <<store, error>>
    /\ UNCHANGED callVars

\* lines 198-211: put_object, its errors caught, then the return of the location
PutMain ==
    /\ pc = "put_main"
    /\ \/ /\ store' = PutObject(call.main_file_path, call.file_content)
          /\ call' = [call EXCEPT !.wrote_main = TRUE,
                                  !.result = Location(call.main_file_path)]
          /\ pc' = "metadata"
          /\ UNCHANGED error
       \/ \E f \in PutFailures :
             /\ store' = store
             /\ IF Caught(f)
                THEN /\ call' = [call EXCEPT !.main_put_failed = TRUE,
                                             !.result = Location(call.main_file_path)]
                     /\ pc' = "metadata"
                     /\ UNCHANGED error
                ELSE /\ Crash(Raise(f, "put_main"))
                     /\ UNCHANGED call
    /\ UNCHANGED callVars

-----------------------------------------------------------------------------
(* _save_provenance_to_toml.wrapper: lines 47-106, run after the inner function *)

\* a wrapper that ends without `return result`
WrapperResultDropped(result) == None

\* line 106: what the wrapper returns after the put_object of the .toml file
WrapperResult(result) == result

\* lines 47-68: the metadata (clock and git user name), the TOML text and the key
Metadata ==
    /\ pc = "metadata"
    /\ \E now \in clock..MaxClock, out \in GitOutputs :
          /\ clock' = now
          /\ IF out = None
             THEN \* subprocess.check_output raises CalledProcessError
                  /\ Crash(Raise("CalledProcessError", "metadata"))
                  /\ UNCHANGED call
             ELSE /\ call' = [call EXCEPT
                        !.toml_content =
                            TomlDumps([original_file_url |-> call.target_url,
                                       download_date_time |-> Strftime(now),
                                       downloaded_by_git_user |-> Strip(out, "\n")]),
                        !.toml_file_path = TomlFilePath(dataset_name, call.target_url)]
                  /\ pc' = "head_toml"
                  /\ UNCHANGED error
    /\ UNCHANGED <<registry, config, updaters, store, dataset_name, filter, seasons,
                   latest_version, urlIdx, s3_file_path, calls, hist>>

\* lines 73-82: head_object on the .toml key
HeadToml ==
    /\ pc = "head_toml"
    /\ \/ /\ HasKey(call.toml_file_path)
          /\ call' = [call EXCEPT !.toml_exists = TRUE]
          /\ pc' = "prompt_toml"
          /\ UNCHANGED error
       \/ /\ ~HasKey(call.toml_file_path)     \* ClientError 404
          /\ call' = [call EXCEPT !.toml_exists = FALSE]
          /\ pc' = "put_toml"
          /\ UNCHANGED error
       \/ /\ \E f \in HeadFailures : Crash(Raise(f, "head_toml"))
          /\ UNCHANGED call
    /\ UNCHANGED store
    /\ UNCHANGED callVars

\* lines 85-91: the overwrite prompt for the .toml file; a bare return when declined
PromptToml ==
    /\ pc = "prompt_toml"
    /\ \E answer \in Answers :
          IF Declined(answer)
          THEN /\ call' = [call EXCEPT !.toml_overwrite = answer, !.retval = None]
               /\ pc' = "returned"
          ELSE /\ call' = [call EXCEPT !.toml_overwrite = answer]
               /\ pc' = "put_toml"
    /\ UNCHANGED <<store, error>>
    /\ UNCHANGED callVars

\* lines 93-106: put_object of the .toml file, its errors caught, then return result
PutToml ==
    /\ pc = "put_toml"
    /\ \/ /\ store' = PutObject(call.toml_file_path, call.toml_content)
          /\ call' = [call EXCEPT !.wrote_toml = TRUE,
                                  !.retval = WrapperResult(call.result)]
          /\ pc' = "returned"
          /\ UNCHANGED error
       \/ \E f \in PutFailures :
             /\ store' = store
             /\ IF Caught(f)
                THEN /\ call' = [call EXCEPT !.toml_put_failed = TRUE,
                                             !.retval = WrapperResult(call.result)]
                     /\ pc' = "returned"
                     /\ UNCHANGED error
                ELSE /\ Crash(Raise(f, "put_toml"))
                     /\ UNCHANGED call
    /\ UNCHANGED callVars

-----------------------------------------------------------------------------
(* append_file_bronze_to_latest_version: lines 255-280 *)

\* a selection that looks at every release, whatever the filter
LatestIndexUnfiltered(versions, f) ==
    IF versions = <<>> THEN 0
    ELSE CHOOSE i \in 1..Len(versions) :
             /\ \A j \in 1..Len(versions) :
                    ~DateLess(ReleaseKey(versions[i]), ReleaseKey(versions[j]))
             /\ \A j \in 1..(i - 1) :
                    DateLess(ReleaseKey(versions[j]), ReleaseKey(versions[i]))

\* the index in versions of the dict that lines 262-275 select, 0 when max() raises
LatestIndex(versions, f) ==
    LET cand == {i \in 1..Len(versions) : ~Truthy(f) \/ MatchesFilter(versions[i], f)}
    IN  IF cand = {} THEN 0
        ELSE CHOOSE i \in cand :
                 /\ \A j \in cand : ~DateLess(ReleaseKey(versions[i]), ReleaseKey(versions[j]))
                 /\ \A j \in cand : j < i =>
                        DateLess(ReleaseKey(versions[j]), ReleaseKey(versions[i]))

\* line 276: latest_version["file_bronze"] = s3_file_path
SetFileBronze(version, paths) ==
    [k \in DOMAIN version \cup {"file_bronze"} |->
        IF k = "file_bronze" THEN paths ELSE version[k]]

IsDigit(c) == c \in {"0", "1", "2", "3", "4", "5", "6", "7", "8", "9"}

\* YAML's implicit resolver: a plain scalar of the form dddd-dd-dd is a timestamp
ResolvesAsTimestamp(s) ==
    /\ Len(s) = 10
    /\ \A i \in {1, 2, 3, 4, 6, 7, 9, 10} : IsDigit(Char(s, i))
    /\ Char(s, 5) = "-" /\ Char(s, 8) = "-"

\* a dumper that writes every str as a plain scalar
YamlScalarPlain(s) == s

\* yaml.dump of a str: plain when the plain form reads back as a str, single-quoted otherwise
YamlScalar(s) == IF ResolvesAsTimestamp(s) THEN "'" \o s \o "'" ELSE s

\* yaml.safe_load of a scalar: a quoted scalar is a str, a plain timestamp is a date object
ParseScalar(t) ==
    IF Len(t) >= 2 /\ Char(t, 1) = "'" /\ Char(t, Len(t)) = "'"
    THEN SubSeq(t, 2, Len(t) - 1)
    ELSE IF ResolvesAsTimestamp(t) THEN "datetime.date(" \o t \o ")"
    ELSE t

\* the fields of a release that hold a list of strings; the others hold a string
ListFields == {"file_url", "file_bronze"}

\* a scalar on its way to the file (dumping) or from the file
ConvertScalar(s, dumping) == IF dumping THEN YamlScalar(s) ELSE ParseScalar(s)

\* a release with every scalar converted
MapRelease(version, dumping) ==
    [k \in DOMAIN version |->
        IF k \in ListFields
        THEN [i \in 1..Len(version[k]) |-> ConvertScalar(version[k][i], dumping)]
        ELSE ConvertScalar(version[k], dumping)]

\* the registry with every scalar converted
MapRegistry(reg, dumping) ==
    [dataset |->
        [d \in DOMAIN reg["dataset"] |->
            [versions |->
                [i \in 1..Len(reg["dataset"][d]["versions"]) |->
                    MapRelease(reg["dataset"][d]["versions"][i], dumping)]]]]

\* line 280: yaml.dump(all_existing_data, file, default_flow_style=False, sort_keys=True);
\* the document as a tree of scalar tokens (a mapping has no key order here)
YamlDump(data) == MapRegistry(data, TRUE)

\* lines 256-257: yaml.safe_load(file)
SafeLoad(document) == MapRegistry(document, FALSE)

\* a write that merges the named dataset into the file as it is on disk
FileAfterDumpMerged(all_existing_data, onDisk, name) ==
    SafeLoad(YamlDump([onDisk EXCEPT !["dataset"][name] =
                                         all_existing_data["dataset"][name]]))

\* lines 279-280: open(..., "w") truncates base.yaml and the dump becomes the whole file;
\* onDisk is the file another writer may have left since this call loaded it
FileAfterDump(all_existing_data, onDisk, name) == SafeLoad(YamlDump(all_existing_data))

\* lines 260-276: all_existing_data after the update, or the exception max() raises
UpdatedData(all_existing_data, name, paths, f) ==
    LET versions == IF name \in DOMAIN all_existing_data["dataset"]
                    THEN all_existing_data["dataset"][name]["versions"]
                    ELSE <<>>
        i == LatestIndex(versions, f)
    IN  IF i = 0
        THEN Raise("ValueError", "append_file_bronze_to_latest_version")
        ELSE Return([all_existing_data EXCEPT !["dataset"][name]["versions"][i] =
                                                  SetFileBronze(@, paths)])

\* the registry the function writes back, or the exception it raises
append_file_bronze_to_latest_version(reg, name, paths, f) ==
    LET r == UpdatedData(reg, name, paths, f)
    IN  IF r.raised THEN r ELSE Return(FileAfterDump(r.value, reg, name))

-----------------------------------------------------------------------------
(* The drivers: lines 13-25 *)

\* the test that never skips the registry update
NoPathsNever(paths) == FALSE

\* the test `not s3_file_path`
NoPaths(paths) == paths = <<>>

\* if file_path: s3_file_path.append(file_path)
CollectPath ==
    /\ pc = "returned"
    /\ s3_file_path' = IF Truthy(call.retval)
                       THEN Append(s3_file_path, call.retval)
                       ELSE s3_file_path
    /\ hist' = [hist EXCEPT !.got_location = @ \/ Truthy(call.retval),
                            !.failed_call = @ \/ call.status_code # 200
                                              \/ call.main_put_failed \/ call.toml_put_failed,
                            !.prev = Summary(dataset_name, call, hist.store0, store),
                            !.store0 = store]
    /\ call' = NoCall
    \* in the PAT driver the registry update is inside the loop body
    /\ IF dataset_name = PAT
       THEN pc' = "if_paths" /\ urlIdx' = urlIdx
       ELSE pc' = "for_url" /\ urlIdx' = urlIdx + 1
    /\ UNCHANGED <<registry, config, updaters, store, clock, dataset_name, filter, seasons,
                   latest_version, error, calls>>

\* if not s3_file_path: pass / else: append_file_bronze_to_latest_version(...)
UpdateRegistry ==
    /\ pc = "if_paths"
    /\ IF NoPaths(s3_file_path)
       THEN /\ UNCHANGED <<registry, error, hist>>
            /\ pc' = IF dataset_name = PAT THEN "for_url" ELSE "exit"
       ELSE LET r == append_file_bronze_to_latest_version(
                         registry, dataset_name, s3_file_path, filter)
            IN  /\ hist' = [hist EXCEPT !.appends =
                                Append(@, [filter |-> filter, s3_file_path |-> s3_file_path,
                                           saved |-> hist.saved])]
                /\ IF r.raised
                   THEN /\ Crash(r)
                        /\ UNCHANGED registry
                   ELSE /\ registry' = r.value
                        /\ pc' = IF dataset_name = PAT THEN "for_url" ELSE "exit"
                        /\ UNCHANGED error
    /\ urlIdx' = IF dataset_name = PAT THEN urlIdx + 1 ELSE urlIdx
    /\ UNCHANGED <<config, updaters, store, clock, dataset_name, filter, seasons,
                   latest_version, s3_file_path, call, calls>>

-----------------------------------------------------------------------------
(* Specification of the drivers *)

Init ==
    /\ registry = InitialRegistry
    /\ config = InitialRegistry
    /\ store = InitialStore
    /\ clock = 0
    /\ pc = "start"
    /\ dataset_name = None
    /\ filter = None
    /\ seasons = <<>>
    /\ latest_version = NoVersion
    /\ urlIdx = 1
    /\ s3_file_path = <<>>
    /\ call = NoCall
    /\ error = NoError
    /\ calls = 0
    /\ hist = NewHist(InitialRegistry, store, NoPrev)
    /\ updaters = NoUpdaters

Next ==
    \/ \E d \in Drivers : StartRun(d)
    \/ ForSeason
    \/ Resolve
    \/ CallSave
    \/ LoopExit
    \/ Download(PlainHeaders)
    \/ HeadMain
    \/ PromptMain
    \/ PutMain
    \/ Metadata
    \/ HeadToml
    \/ PromptToml
    \/ PutToml
    \/ CollectPath
    \/ UpdateRegistry

Spec == Init /\ [][Next]_vars

-----------------------------------------------------------------------------
(* Specification of one save_to_s3_bronze call: any dataset, any URL of the registry, *)
(* any bucket content at the keys the call can touch, any response headers           *)

UrlsOf(d) ==
    LET versions == InitialRegistry["dataset"][d]["versions"]
    IN  UNION {{versions[i]["file_url"][k] : k \in 1..Len(versions[i]["file_url"])} :
                  i \in 1..Len(versions)}

\* the buckets a call for (d, url) can find
SaveStores(d, url) ==
    LET main == MainFilePath(d, SplitLast(url, "/"))
        hint == MainFilePath(d, "d.csv")
        toml == TomlFilePath(d, url)
        old == TomlDumps([original_file_url |-> url,
                          download_date_time |-> Strftime(0),
                          downloaded_by_git_user |-> "bob"])
    IN  {m @@ h @@ t : m \in {EmptyStore, main :> "ab", main :> "xyz"},
                       h \in {EmptyStore, hint :> "ab"},
                       t \in {EmptyStore, toml :> old}}

SaveInit ==
    /\ registry = InitialRegistry
    /\ config = InitialRegistry
    /\ dataset_name \in Drivers
    /\ \E url \in UrlsOf(dataset_name) :
          /\ call = NewCall(url)
          /\ store \in SaveStores(dataset_name, url)
          /\ hist = [NewHist(InitialRegistry, store, NoPrev) EXCEPT !.saved = <<url>>]
    /\ clock = 0
    /\ pc = "get"
    /\ filter = None
    /\ seasons = <<>>
    /\ latest_version = NoVersion
    /\ urlIdx = 1
    /\ s3_file_path = <<>>
    /\ error = NoError
    /\ calls = 1
    /\ updaters = NoUpdaters

SaveNext ==
    \/ Download(HeaderSets)
    \/ HeadMain
    \/ PromptMain
    \/ PutMain
    \/ Metadata
    \/ HeadToml
    \/ PromptToml
    \/ PutToml

SpecSave == SaveInit /\ [][SaveNext]_vars

-----------------------------------------------------------------------------
(* Specification of get_latest_version: any versions list, any filter *)

ReleasePool ==
    {Release(d, u) : d \in {"2023-9-15", "2023-10-01", "2022-12-31"},
                     u \in {<<"http://g/Summer.csv">>,
                            <<"http://g/Winter.csv">>,
                            <<"http://g/Winter.ods", "http://g/Summer.ods">>}}

VersionLists == UNION {[1..n -> ReleasePool] : n \in 0..MaxVersions}

ResolveFilters == {None, "", "Summer", "Winter", "Spring"}

ResolveInit ==
    /\ \E versions \in VersionLists :
          /\ registry = [dataset |-> ("X" :> [versions |-> versions])]
          /\ config = registry
    /\ dataset_name = "X"
    /\ filter \in ResolveFilters
    /\ pc = "resolve"
    /\ store = EmptyStore
    /\ clock = 0
    /\ seasons = <<>>
    /\ latest_version = NoVersion
    /\ urlIdx = 1
    /\ s3_file_path = <<>>
    /\ call = NoCall
    /\ error = NoError
    /\ calls = 0
    /\ hist = NewHist(registry, store, NoPrev)
    /\ updaters = NoUpdaters

ResolveNext == Resolve

SpecResolve == ResolveInit /\ [][ResolveNext]_vars

-----------------------------------------------------------------------------
(* Specification of append_file_bronze_to_latest_version: a driver for a dataset "X" *)
(* stands at its registry update, after get_latest_version and the loop over the    *)
(* URLs; base.yaml may have been edited since the process imported its config       *)

OldLocation == "s3://asf-mission-data-tool/bronze/X/old.csv"

UpdatePool ==
    {Release("2023-01-01", <<"http://a/f.csv">>),
     Release("2023-01-01", <<"http://a/Summer.csv", "http://a/g.csv">>),
     Release("2023-1-01", <<"http://a/Summer.csv", "http://a/g.csv">>),
     Release("2023-02-01", <<"http://a/f.csv">>),
     [release_date |-> "2023-02-01", file_url |-> <<"http://a/f.csv">>,
      file_bronze |-> <<OldLocation>>, page_url |-> "http://a/page"]}

UpdateLists == UNION {[1..n -> UpdatePool] : n \in 1..MaxReleases}

\* the other datasets of base.yaml
OtherDatasets ==
    {[d \in {} |-> <<>>],
     "Y" :> [versions |-> <<Release("2022-05-05", <<"http://b/Summer.csv">>)>>]}

UpdateFilters == {None, "", "Summer"}

\* a release a maintainer adds to base.yaml while the driver runs
AddedRelease == Release("2023-03-01", <<"http://a/Summer.csv">>)

Edits == {"none", "prepend", "append", "remove"}

Edited(reg, edit) ==
    CASE edit = "none" -> reg
      [] edit = "prepend" ->
            [reg EXCEPT !["dataset"]["X"]["versions"] = <<AddedRelease>> \o @]
      [] edit = "append" ->
            [reg EXCEPT !["dataset"]["X"]["versions"] = Append(@, AddedRelease)]
      [] edit = "remove" ->
            [dataset |-> [d \in DOMAIN reg["dataset"] \ {"X"} |-> reg["dataset"][d]]]

\* the order-preserving sublists of a list of one or two elements
SubLists(l) ==
    {<<>>} \cup {<<l[i]>> : i \in 1..Len(l)} \cup (IF Len(l) = 2 THEN {l} ELSE {})

\* the lists of locations the loop can have collected for the URLs of a release
PublishedPaths(version) ==
    SubLists([k \in 1..Len(version["file_url"]) |->
                 Location(MainFilePath("X", SplitLast(version["file_url"][k], "/")))])

UpdateInit ==
    /\ \E versions \in UpdateLists, others \in OtherDatasets, edit \in Edits :
          /\ config = [dataset |-> ("X" :> [versions |-> versions]) @@ others]
          /\ registry = Edited(config, edit)
    /\ dataset_name = "X"
    /\ filter \in UpdateFilters
    /\ LET r == get_latest_version(config, dataset_name, filter)
       IN  /\ ~r.raised
           /\ latest_version = r.value
    /\ s3_file_path \in PublishedPaths(latest_version)
    /\ urlIdx = Len(latest_version["file_url"]) + 1
    /\ pc = "if_paths"
    /\ store = EmptyStore
    /\ clock = 0
    /\ seasons = <<>>
    /\ call = NoCall
    /\ error = NoError
    /\ calls = Len(latest_version["file_url"])
    /\ hist = [NewHist(registry, store, NoPrev) EXCEPT
                  !.saved = latest_version["file_url"],
                  !.got_location = s3_file_path # <<>>]
    /\ updaters = NoUpdaters

UpdateNext == UpdateRegistry

SpecUpdate == UpdateInit /\ [][UpdateNext]_vars

-----------------------------------------------------------------------------
(* Properties of get_latest_version, checked under SpecResolve *)

\* the versions list the resolver was given
GivenVersions == config["dataset"]["X"]["versions"]

DateOf(version) == Strptime(version["release_date"])

DistinctDates(versions) ==
    \A i, j \in 1..Len(versions) : i # j => DateOf(versions[i]) # DateOf(versions[j])

HasUrlWith(version, f) ==
    \E k \in 1..Len(version["file_url"]) : IsSubstring(f, version["file_url"][k])

\* C1: with no filter and pairwise distinct release dates, get_latest_version returns the
\* release of the list whose date is later than every other release's date, for every
\* stored order of the list.
C1_LatestIsMaxDate ==
    (pc # "resolve" /\ filter = None /\ Len(GivenVersions) > 0 /\ DistinctDates(GivenVersions))
    => /\ pc = "for_url"
       /\ \E i \in 1..Len(GivenVersions) : latest_version = GivenVersions[i]
       /\ \A j \in 1..Len(GivenVersions) :
             GivenVersions[j] # latest_version
             => DateLess(DateOf(GivenVersions[j]), DateOf(latest_version))

\* the latest release is stored neither first nor last among three of distinct dates
C1_Witness ==
    /\ pc = "for_url" /\ filter = None
    /\ Len(GivenVersions) = 3 /\ DistinctDates(GivenVersions)
    /\ latest_version = GivenVersions[2]

\* C2: with a filter token f, get_latest_version only returns a release of the list that
\* has a URL containing f, and when no release has one the call raises and returns nothing.
C2_FilterRespected ==
    (pc # "resolve" /\ filter # None)
    => /\ pc = "for_url"
          => /\ \E i \in 1..Len(GivenVersions) : latest_version = GivenVersions[i]
             /\ HasUrlWith(latest_version, filter)
       /\ (\A i \in 1..Len(GivenVersions) : ~HasUrlWith(GivenVersions[i], filter))
          => /\ pc = "crashed"
             /\ error.raised
             /\ latest_version = NoVersion

\* a release is returned although a later release, which lacks the token, is in the list
C2_Witness ==
    /\ pc = "for_url" /\ Truthy(filter)
    /\ HasUrlWith(latest_version, filter)
    /\ \E i \in 1..Len(GivenVersions) :
          /\ ~HasUrlWith(GivenVersions[i], filter)
          /\ DateLess(DateOf(latest_version), DateOf(GivenVersions[i]))

-----------------------------------------------------------------------------
(* Specification of concurrent registry updates: two processes have each published *)
(* files of a dataset and call append_file_bronze_to_latest_version on one base.yaml *)

Procs == {1, 2}

\* all_existing_data before the file is loaded
NoData == [dataset |-> <<>>]

Updater(name, paths, f) ==
    [pc |-> "load", dataset_name |-> name, s3_file_path |-> paths, filter |-> f,
     all_existing_data |-> NoData]

\* the calls a driver makes: its dataset, locations of files of the release it resolved,
\* and its filter
CallsOf(d, f) ==
    LET version == get_latest_version(InitialRegistry, d, f).value
        locations == [k \in 1..Len(version["file_url"]) |->
                         Location(MainFilePath(d, SplitLast(version["file_url"][k], "/")))]
    IN  {Updater(d, paths, f) : paths \in SubLists(locations) \ {<<>>}}

UpdaterCalls ==
    CallsOf(HP, None) \cup CallsOf(UK, None)
    \cup UNION {CallsOf(PAT, Seasons[k]) : k \in 1..Len(Seasons)}

\* lines 255-257: the process opens base.yaml and loads it
LoadRegistry(p) ==
    /\ updaters[p].pc = "load"
    /\ updaters' = [updaters EXCEPT ![p].all_existing_data = registry,
                                    ![p].pc = "dump"]
    /\ UNCHANGED <<registry, config, store, clock, pc, dataset_name, filter, seasons,
                   latest_version, urlIdx, s3_file_path, call, error, calls, hist>>

\* lines 260-280: the process sets file_bronze in what it loaded and writes the file
DumpRegistry(p) ==
    /\ updaters[p].pc = "dump"
    /\ LET u == updaters[p]
           r == UpdatedData(u.all_existing_data, u.dataset_name, u.s3_file_path, u.filter)
       IN  IF r.raised
           THEN /\ updaters' = [updaters EXCEPT ![p].pc = "raised"]
                /\ UNCHANGED registry
           ELSE /\ updaters' = [updaters EXCEPT ![p].pc = "done",
                                                ![p].all_existing_data = r.value]
                /\ registry' = FileAfterDump(r.value, registry, u.dataset_name)
    /\ UNCHANGED <<config, store, clock, pc, dataset_name, filter, seasons,
                   latest_version, urlIdx, s3_file_path, call, error, calls, hist>>

RaceInit ==
    /\ registry = InitialRegistry
    /\ config = InitialRegistry
    /\ updaters \in [Procs -> UpdaterCalls]
    /\ store = EmptyStore
    /\ clock = 0
    /\ pc = "exit"
    /\ dataset_name = None
    /\ filter = None
    /\ seasons = <<>>
    /\ latest_version = NoVersion
    /\ urlIdx = 1
    /\ s3_file_path = <<>>
    /\ call = NoCall
    /\ error = NoError
    /\ calls = 0
    /\ hist = NewHist(registry, store, NoPrev)

RaceNext ==
    \E p \in Procs :
        \/ LoadRegistry(p)
        \/ DumpRegistry(p)

SpecRace == RaceInit /\ [][RaceNext]_vars

-----------------------------------------------------------------------------
(* Properties of append_file_bronze_to_latest_version, checked under SpecUpdate *)

\* the versions of dataset "X" in base.yaml before and after the update
Before == hist.registry0["dataset"]["X"]["versions"]
After == registry["dataset"]["X"]["versions"]

\* append_file_bronze_to_latest_version was called and returned
Updated == pc = "exit" /\ hist.appends # <<>>

\* release i is a candidate: no filter was given, or one of its URLs contains the filter
Candidate(versions, i, f) == Truthy(f) => HasUrlWith(versions[i], f)

\* no candidate release has a later date than release i
LatestCandidate(versions, i, f) ==
    /\ Candidate(versions, i, f)
    /\ \A j \in 1..Len(versions) :
          Candidate(versions, j, f) => ~DateLess(DateOf(versions[i]), DateOf(versions[j]))

\* base.yaml after the call differs from base.yaml before it in release i of "X" alone,
\* and there in file_bronze alone, which holds the list passed to the call
OnlyFileBronzeOf(i) ==
    /\ DOMAIN registry = DOMAIN hist.registry0
    /\ DOMAIN registry["dataset"] = DOMAIN hist.registry0["dataset"]
    /\ \A d \in DOMAIN registry["dataset"] \ {"X"} :
          registry["dataset"][d] = hist.registry0["dataset"][d]
    /\ DOMAIN registry["dataset"]["X"] = DOMAIN hist.registry0["dataset"]["X"]
    /\ Len(After) = Len(Before)
    /\ \A j \in 1..Len(Before) : j # i => After[j] = Before[j]
    /\ DOMAIN After[i] = DOMAIN Before[i] \cup {"file_bronze"}
    /\ \A k \in DOMAIN Before[i] \ {"file_bronze"} : After[i][k] = Before[i][k]
    /\ After[i]["file_bronze"] = s3_file_path

ExampleRegistry ==
    [dataset |-> ("X" :> [versions |-> <<Release("2023-01-01", <<"http://a/f.csv">>)>>])]

\* C11: a call of append_file_bronze_to_latest_version that returns leaves base.yaml as it
\* was except for the file_bronze field of one release of the named dataset, a latest
\* release among those the filter admits, which holds the given locations whatever it
\* held before; for the registry with the one release of 2023-01-01 the result is that
\* registry with file_bronze added.
C11_OnlyFileBronzeSet ==
    Updated
    => /\ \E i \in 1..Len(Before) :
             /\ LatestCandidate(Before, i, filter)
             /\ OnlyFileBronzeOf(i)
       /\ hist.registry0 = ExampleRegistry
          => registry = [dataset |-> ("X" :> [versions |->
                            <<[release_date |-> "2023-01-01",
                               file_url |-> <<"http://a/f.csv">>,
                               file_bronze |-> s3_file_path]>>])]

\* the update replaced an earlier file_bronze value of a release that has another field,
\* in a registry with a second dataset and a second release
C11_Witness ==
    /\ Updated
    /\ "Y" \in DOMAIN registry["dataset"]
    /\ Len(Before) >= 2
    /\ \E i \in 1..Len(Before) :
          /\ "file_bronze" \in DOMAIN Before[i]
          /\ "page_url" \in DOMAIN After[i]
          /\ After[i]["file_bronze"] = s3_file_path
          /\ Before[i]["file_bronze"] # s3_file_path

\* what get_latest_version answers on base.yaml as it was when the update was made
ResolvedOnDisk == get_latest_version(hist.registry0, dataset_name, filter)

\* the update was attempted: the call returned or raised
UpdateOver == hist.appends # <<>> /\ pc \in {"exit", "crashed"}

\* C15: the release whose file_bronze append_file_bronze_to_latest_version sets is the
\* release get_latest_version returns for the same dataset and filter on base.yaml as
\* persisted when the update is made, not the release resolved from the config read when
\* the run started; the updater raises exactly when the resolver would.
C15_UpdaterResolvesAsResolver ==
    UpdateOver
    => /\ pc = "crashed" <=> ResolvedOnDisk.raised
       /\ pc = "exit"
          => \E i \in 1..Len(Before) :
                /\ Before[i] = ResolvedOnDisk.value
                /\ OnlyFileBronzeOf(i)
                /\ \A j \in 1..(i - 1) : Before[j] # ResolvedOnDisk.value

\* a filtered update went to a release that was added to base.yaml after the run had
\* resolved another one
C15_Witness ==
    /\ Updated
    /\ Truthy(filter)
    /\ latest_version # ResolvedOnDisk.value
    /\ \E i \in 1..Len(Before) :
          /\ Before[i] = AddedRelease
          /\ After[i]["file_bronze"] = s3_file_path
    /\ \E j \in 1..Len(Before) :
          ~HasUrlWith(Before[j], filter) /\ DateLess(DateOf(latest_version), DateOf(Before[j]))

\* release i is the first, in stored order, of the latest candidate releases
FirstLatest(versions, i, f) ==
    /\ LatestCandidate(versions, i, f)
    /\ \A j \in 1..(i - 1) :
          Candidate(versions, j, f) => DateLess(DateOf(versions[j]), DateOf(versions[i]))

\* several candidate releases share the latest date
Tied(versions, f) ==
    \E i, j \in 1..Len(versions) :
        i # j /\ LatestCandidate(versions, i, f) /\ LatestCandidate(versions, j, f)

\* the versions of dataset "X" in the config the run resolved from
Resolved == config["dataset"]["X"]["versions"]

\* C17: when several candidate releases share the latest release_date, with a filter or
\* without, get_latest_version returns the one stored first, and
\* append_file_bronze_to_latest_version sets file_bronze on the one stored first, the
\* release get_latest_version returns on that registry.
C17_FirstOfTies ==
    /\ Tied(Resolved, filter)
       => \E i \in 1..Len(Resolved) :
             FirstLatest(Resolved, i, filter) /\ latest_version = Resolved[i]
    /\ (Updated /\ Tied(Before, filter))
       => \E i \in 1..Len(Before) :
             /\ FirstLatest(Before, i, filter)
             /\ OnlyFileBronzeOf(i)
             /\ ResolvedOnDisk = Return(Before[i])

\* a filtered update went to the first of two candidate releases of the same date that
\* are written differently
C17_Witness ==
    /\ Updated
    /\ Truthy(filter)
    /\ \E i, j \in 1..Len(Before) :
          /\ i < j
          /\ FirstLatest(Before, i, filter)
          /\ LatestCandidate(Before, j, filter)
          /\ Before[i]["release_date"] # Before[j]["release_date"]
          /\ OnlyFileBronzeOf(i)
          /\ latest_version = Before[i]

-----------------------------------------------------------------------------
(* Properties of concurrent registry updates, checked under SpecRace *)

BothDone == \A p \in Procs : updaters[p].pc = "done"

\* p loaded base.yaml as it was before any update: before the other process wrote it
LoadedOriginal(p) ==
    [updaters[p].all_existing_data EXCEPT
        !["dataset"][updaters[p].dataset_name] =
            hist.registry0["dataset"][updaters[p].dataset_name]] = hist.registry0

DifferentDatasets == updaters[1].dataset_name # updaters[2].dataset_name

\* base.yaml holds the file_bronze value of process p
HoldsUpdateOf(p) ==
    LET versions == registry["dataset"][updaters[p].dataset_name]["versions"]
    IN  \E i \in 1..Len(versions) :
            /\ "file_bronze" \in DOMAIN versions[i]
            /\ versions[i]["file_bronze"] = updaters[p].s3_file_path

\* the dataset of process q is in base.yaml as it was before the two calls
LostUpdateOf(q) ==
    /\ ~HoldsUpdateOf(q)
    /\ registry["dataset"][updaters[q].dataset_name]
          = hist.registry0["dataset"][updaters[q].dataset_name]

\* C16: when two append_file_bronze_to_latest_version calls for different datasets have
\* both loaded base.yaml before either wrote it, then once both have finished base.yaml
\* holds the file_bronze update of one of them and has lost the other's; when one loaded
\* after the other wrote, base.yaml holds both.
C16_LostUpdate ==
    (BothDone /\ DifferentDatasets)
    => IF \A p \in Procs : LoadedOriginal(p)
       THEN \E p, q \in Procs : p # q /\ HoldsUpdateOf(p) /\ LostUpdateOf(q)
       ELSE \A p \in Procs : HoldsUpdateOf(p)

\* both calls have finished and base.yaml holds the update of process 2 alone
C16_Witness ==
    /\ BothDone
    /\ DifferentDatasets
    /\ \A p \in Procs : LoadedOriginal(p)
    /\ HoldsUpdateOf(2)
    /\ LostUpdateOf(1)

-----------------------------------------------------------------------------
(* Properties of one save_to_s3_bronze call *)

Yes == {"y", "Y"}

CallOver == pc \in {"returned", "crashed"}

\* the call wrote the object at key k
WroteKey(k) ==
    \/ call.wrote_main /\ k = call.main_file_path
    \/ call.wrote_toml /\ k = call.toml_file_path

\* the operator answered yes to the overwrite prompt for the object at key k
SaidYesFor(k) ==
    \/ k = call.main_file_path /\ call.overwrite \in Yes
    \/ k = call.toml_file_path /\ call.toml_overwrite \in Yes

\* C3: an object that existed when the call started is only written after a yes to its
\* prompt; no prompt is shown for a key that holds no object; and after any other answer
\* to the data prompt the call returns None and the data object is as it was.
C3_Original ==
    /\ \A k \in DOMAIN hist.store0 :
          /\ WroteKey(k) => SaidYesFor(k)
          /\ store[k] # hist.store0[k] => WroteKey(k)
    /\ (call.overwrite # None) => call.main_file_path \in DOMAIN hist.store0
    /\ (pc = "put_main" /\ ~HasKey(call.main_file_path)) => call.overwrite = None
    /\ (pc = "put_toml" /\ ~HasKey(call.toml_file_path)) => call.toml_overwrite = None
    /\ (CallOver /\ call.overwrite # None /\ call.overwrite \notin Yes)
       => /\ pc = "returned"
          /\ call.retval = None
          /\ ~call.wrote_main
          /\ store[call.main_file_path] = hist.store0[call.main_file_path]

\* C4: when a publish of a URL in which the operator declined is followed by a publish of
\* the same URL with identical content in which the operator declines again, both leave
\* the store as it was and the second returns None.
C4_Original ==
    (/\ pc = "returned"
     /\ hist.prev.valid
     /\ hist.prev.dataset_name = dataset_name
     /\ hist.prev.target_url = call.target_url
     /\ hist.prev.file_content = call.file_content
     /\ DeclinedEveryPrompt(call))
    => /\ hist.prev.unchanged
       /\ store = hist.store0
       /\ call.retval = None

\* C5: a returned location means the data object was written in this call, and a failed
\* upload makes the call return None.
C5_Original ==
    pc = "returned"
    => /\ call.retval # None => call.wrote_main
       /\ call.main_put_failed => call.retval = None

\* the provenance step failed after the data object was written
ProvenanceRaised ==
    pc = "crashed" /\ error.raised /\ error.where \in {"metadata", "head_toml", "put_toml"}

ProvenanceFailed == call.wrote_main /\ (ProvenanceRaised \/ call.toml_put_failed)

DataObjectKept ==
    HasKey(call.main_file_path) /\ store[call.main_file_path] = call.file_content

C7_Original ==
    (/\ pc = "returned"
     /\ call.wrote_main
     /\ call.toml_exists
     /\ call.toml_overwrite # None /\ call.toml_overwrite \notin Yes)
    => /\ ~call.wrote_toml
       /\ DataObjectKept
       /\ call.retval = Location(call.main_file_path)

\* C8: the provenance step (head_object, prompt, put_object on the .toml key) is only
\* reached, and a .toml object only written, in a call that wrote the data object.
C8_Original ==
    (\/ pc \in {"head_toml", "prompt_toml", "put_toml"}
     \/ call.toml_overwrite # None
     \/ call.wrote_toml)
    => call.wrote_main

\* the part of a key before its last "."
BaseOf(key) == RSplitFirst(key, ".")

StartsWith(s, prefix) == Len(s) >= Len(prefix) /\ SubSeq(s, 1, Len(prefix)) = prefix

\* C12: in every call that writes both objects, the .toml key and the data key are under
\* bronze/{dataset}/, have the same base name and differ in the extension alone, whether the
\* file name came from the URL or from the Content-Disposition header.
C12_Original ==
    (pc = "returned" /\ call.wrote_main /\ call.wrote_toml)
    => /\ StartsWith(call.main_file_path, "bronze/" \o dataset_name \o "/")
       /\ StartsWith(call.toml_file_path, "bronze/" \o dataset_name \o "/")
       /\ BaseOf(call.toml_file_path) = BaseOf(call.main_file_path)
       /\ call.toml_file_path # call.main_file_path

\* the operator confirmed the overwrite of an existing object of the size of the download,
\* and the put_object of the data object was made
ConfirmedOverwrite ==
    /\ call.file_exists
    /\ call.existing_file_size = Len(call.file_content)
    /\ call.overwrite \in Yes
    /\ call.wrote_main

\* C13: after the confirmed overwrite of an existing data object of the same size, the key
\* the object had before holds the downloaded content, the location the call returns is
\* that of this key, and the data write created or changed no other key: every other key
\* is as the call found it, but for the .toml key once the provenance step wrote it.
C13_OverwriteKeepsKey ==
    ConfirmedOverwrite
    => /\ call.main_file_path \in DOMAIN hist.store0
       /\ store[call.main_file_path] = call.file_content
       /\ call.result = Location(call.main_file_path)
       /\ (pc = "returned" /\ call.retval # None)
          => call.retval = Location(call.main_file_path)
       /\ pc = "metadata"
          => store = [hist.store0 EXCEPT ![call.main_file_path] = call.file_content]
       /\ \A k \in DOMAIN store \ {call.main_file_path} :
             \/ k \in DOMAIN hist.store0 /\ store[k] = hist.store0[k]
             \/ call.wrote_toml /\ k = call.toml_file_path

\* the call returned the location after it replaced different bytes of the same length,
\* in a bucket that holds another object
C13_Witness ==
    /\ pc = "returned"
    /\ ConfirmedOverwrite
    /\ hist.store0[call.main_file_path] # call.file_content
    /\ call.retval = Location(call.main_file_path)
    /\ \E k \in DOMAIN hist.store0 : k \notin {call.main_file_path, call.toml_file_path}

-----------------------------------------------------------------------------
(* Properties of the drivers, checked under Spec *)

\* C9: as long as no save_to_s3_bronze call of the run has returned a location,
\* append_file_bronze_to_latest_version has not been called and the persisted registry is
\* the one the run started with.
C9_NoPublishNoRegistryWrite ==
    ~hist.got_location
    => /\ hist.appends = <<>>
       /\ registry = hist.registry0

\* a run of a driver ended after both URLs of the release were tried and none published
C9_Witness ==
    /\ pc = "exit"
    /\ ~hist.got_location
    /\ Len(hist.saved) = 2
    /\ hist.appends = <<>>

SavePlaces == {"get", "head_main", "prompt_main", "put_main",
               "metadata", "head_toml", "prompt_toml", "put_toml"}

\* every URL of the resolved release has been passed to save_to_s3_bronze
AllUrlsSaved == hist.saved = latest_version["file_url"]

\* the loop over the URLs of the resolved release is over
LoopOver ==
    \/ pc = "if_paths" /\ dataset_name # PAT
    \/ pc = "exit" /\ dataset_name # PAT
    \/ pc = "for_season" /\ latest_version # NoVersion

AppendsForRelease ==
    {n \in 1..Len(hist.appends) : hist.appends[n].filter = filter}

\* C14: in every run, each append_file_bronze_to_latest_version call is made once every
\* URL of the resolved release has been passed to save_to_s3_bronze, there is at most one
\* call per resolved release, and a run that ends has updated the registry when a URL was
\* published (DONE) and has left it untouched when none was (SKIPPED).
C14_Original ==
    /\ \A n \in AppendsForRelease : hist.appends[n].saved = latest_version["file_url"]
    /\ Cardinality(AppendsForRelease) <= 1
    /\ pc = "exit"
       => IF hist.got_location
          THEN hist.appends # <<>>
          ELSE hist.appends = <<>> /\ registry = hist.registry0

\* the key of the object a location s3://{bucket}/{key} names
KeyOf(location) == SubSeq(location, Len("s3://" \o Bucket \o "/") + 1, Len(location))

\* C18: every location recorded in a file_bronze field of base.yaml names a key at which
\* the bucket holds an object.
C18_Original ==
    \A d \in DOMAIN registry["dataset"] :
        \A i \in 1..Len(registry["dataset"][d]["versions"]) :
            LET version == registry["dataset"][d]["versions"][i]
            IN  "file_bronze" \in DOMAIN version
                => \A k \in 1..Len(version["file_bronze"]) :
                       HasKey(KeyOf(version["file_bronze"][k]))

====
